---- MODULE Spec2Model ----
(***************************************************************************)
(* Model of dev/create_google_dev_vm.py: the sequential driver that        *)
(* creates a GCE instance, makes remote directories, and copies local      *)
(* configuration files through the try_until_ready retry loop.             *)
(*                                                                         *)
(* External programs (gcloud, the metadata server, the local filesystem)   *)
(* are the environment: every reply is drawn when the program asks.        *)
(***************************************************************************)
EXTENDS Integers, Sequences, FiniteSets, TLC

\* ------------------------------------------------------------------ bounds
MaxFailures == 2      \* failed invocations of one command inside try_until_ready
MaxLookups == 2       \* the lookup counters saturate here

\* --------------------------------------------------------------- constants
SLEEP_SECONDS == 5
EXIT_MINUS_ONE == 255     \* sys.exit(-1) as seen by the parent process
EXIT_UNCAUGHT == 1        \* the interpreter's exit code for an uncaught exception

None == "<None>"
DEFAULT_ZONE == "us-central1-f"
NoError == "none"

\* Python truthiness of an optional string: None and '' are false.
Truthy(v) == v \notin {None, ""}

\* ------------------------------------------------------- local filesystem
AwsPresent == "/keys/present/credentials"
AwsMissing == "/keys/missing/credentials"
\* Files outside $HOME that exist (the explicit --aws_credentials path).
ExistingFiles == {AwsPresent}

\* os.path.abspath(os.path.join(HOME, base_dir, file)), relative to HOME.
HomePath(base_dir, file) == IF base_dir = "." THEN file ELSE base_dir \o "/" \o file

PersonalFiles == {".gitconfig", ".emacs", ".bashrc", ".screenrc"}
GradleFiles == {"gradle.properties"}
GitFiles == {".git-credentials"}
GcloudFiles == {"application_default_credentials.json", "credentials", "properties"}
SpinnakerDirs == {".spinnaker", ".hal"}

\* ------------------------------------------------------------ Options
Flags == BOOLEAN
OptionSets ==
  [project : {None, "my-project"},
   zone : {None, "us-west1-a"},
   copy_personal_files : Flags,
   copy_home_spinnaker : Flags,
   copy_git_credentials : Flags,
   copy_gcloud_config : Flags,
   aws_credentials : {None, AwsPresent, AwsMissing}]

\* ------------------------------------------------------------ commands
NoCommand == [kind |-> "none", sources |-> {}, target |-> ""]
SshMkdir(dirs) == [kind |-> "ssh", sources |-> dirs, target |-> ""]
Scp(source, target) == [kind |-> "scp", sources |-> {source}, target |-> target]
CopyFiles(sources, target) == [kind |-> "copy-files", sources |-> sources, target |-> target]

NoPrint == [kind |-> "none", about |-> "", echo |-> <<>>]
Print1(kind, about) == [kind |-> kind, about |-> about, echo |-> <<>>]

VARIABLES
  pc,              \* position of the driver
  options,         \* the argparse namespace
  fs,              \* local paths under HOME that exist, among those of the current category
  command,         \* the command try_until_ready is running
  ret,             \* where the driver continues when try_until_ready returns
  invocations,     \* run_subprocess calls of the current try_until_ready call
  failures,        \* of which exited non-zero
  slept,           \* seconds spent in time.sleep by the current try_until_ready call
  retcode,         \* exit code of the last invocation
  stdout,          \* output of the last invocation
  printed,         \* what the last step printed
  made,            \* remote directories whose mkdir has exited zero
  creates,         \* times the create-instance command was executed
  createRc,        \* its exit code, -1 before it has run
  reports,         \* times the next-step instructions were printed
  projectLookups,  \* 'gcloud config list' calls (saturating)
  zoneLookups,     \* metadata requests (saturating)
  zoneReply,       \* outcome of the metadata request of the last step, if any
  error,           \* the exception that ended the run
  exitCode         \* process exit code, -1 while running

vars == <<pc, options, fs, command, ret, invocations, failures, slept, retcode,
          stdout, printed, made, creates, createRc, reports, projectLookups, zoneLookups, zoneReply,
          error, exitCode>>

loopVars == <<invocations, failures, slept, retcode, stdout>>
ctxVars == <<options, projectLookups, zoneLookups>>

Init ==
  /\ pc = "check_gcloud"
  /\ options \in OptionSets
  /\ fs = {}
  /\ command = NoCommand
  /\ ret = ""
  /\ invocations = 0
  /\ failures = 0
  /\ slept = 0
  /\ retcode = 0
  /\ stdout = <<>>
  /\ printed = NoPrint
  /\ made = {}
  /\ creates = 0
  /\ createRc = -1
  /\ reports = 0
  /\ projectLookups = 0
  /\ zoneLookups = 0
  /\ zoneReply = "none"
  /\ error = NoError
  /\ exitCode = -1


\* ------------------------------------------------- option resolution
\* Output of 'gcloud config list': lines "key = value\n".
Account == [key |-> "account", value |-> "me"]
ProjectLine(v) == [key |-> "project", value |-> v]
ConfigOutputs ==
  {<<>>, <<Account>>, <<ProjectLine("")>>, <<Account, ProjectLine("cfg-project")>>,
   <<ProjectLine(""), ProjectLine("cfg-project")>>,
   <<ProjectLine("cfg-project"), ProjectLine("")>>}
\* What check_subprocess('gcloud config list') can do: exit non-zero, or print.
ConfigReplies ==
  {[rc |-> 1, out |-> <<>>]} \cup {[rc |-> 0, out |-> o] : o \in ConfigOutputs}

\* re.search('project = (.*)\n', stdout): the first matching line, 0 for no match.
re_search_project(out) ==
  LET hits == {i \in 1..Len(out) : out[i].key = "project"}
  IN IF hits = {} THEN 0 ELSE CHOOSE i \in hits : \A j \in hits : i <= j

\* Body of the metadata reply as path segments; os.path.basename is the part
\* after the last '/'.
ZoneBodies == {<<>>, <<"projects", "1", "zones", "europe-west1-b">>, <<"projects", "1", "zones", "">>}
basename(path) == IF Len(path) = 0 THEN "" ELSE path[Len(path)]
\* What urlopen(request) can do: answer, raise HTTPError, raise URLError.
ZoneReplies ==
  {[kind |-> "ok", body |-> b] : b \in ZoneBodies}
  \cup {[kind |-> k, body |-> <<>>] : k \in {"HTTPError", "URLError"}}

Saturate(n) == IF n < MaxLookups THEN n + 1 ELSE MaxLookups

\* The part of the state the resolution functions read and write.
Ctx ==
  [options |-> options, projectLookups |-> projectLookups,
   zoneLookups |-> zoneLookups, zoneReply |-> "none", error |-> NoError]

\* A step that resolves nothing and prints nothing.
NoLookup == zoneReply' = "none" /\ UNCHANGED ctxVars
Silent == printed' = NoPrint

\* check_subprocess: the output of a command that exited zero; a non-zero exit raises.
check_subprocess(c, reply) ==
  IF reply.rc # 0 THEN [c EXCEPT !.error = "CalledProcessError"] ELSE c

get_project(c, reply) ==
  IF Truthy(c.options.project) THEN c
  ELSE LET c1 == [check_subprocess(c, reply) EXCEPT !.projectLookups = Saturate(@)]
           m == re_search_project(reply.out)
       IN IF c1.error # NoError THEN c1
          ELSE IF m = 0 THEN [c1 EXCEPT !.error = "AttributeError"]
          ELSE [c1 EXCEPT !.options.project = reply.out[m].value]

\* get_zone without the try/except around urlopen.
get_zone_uncaught(c, reply) ==
  IF Truthy(c.options.zone) THEN c
  ELSE LET c1 == [c EXCEPT !.zoneLookups = Saturate(@), !.zoneReply = reply.kind]
       IN IF reply.kind = "ok"
          THEN [c1 EXCEPT !.options.zone = basename(reply.body)]
          ELSE [c1 EXCEPT !.error = reply.kind]

get_zone(c, reply) ==
  IF Truthy(c.options.zone) THEN c
  ELSE LET c1 == [c EXCEPT !.zoneLookups = Saturate(@), !.zoneReply = reply.kind]
       IN IF reply.kind = "ok"
          THEN [c1 EXCEPT !.options.zone = basename(reply.body)]
          ELSE [c1 EXCEPT !.options.zone = DEFAULT_ZONE]

\* '--project', get_project(options), '--zone', get_zone(options): evaluated in
\* this order; an exception in the first skips the second.
resolve(c, pr, zr) ==
  LET c1 == get_project(c, pr)
  IN IF c1.error # NoError THEN c1 ELSE get_zone(c1, zr)

\* The replies the environment must supply: none when the value is cached.
ProjectRepliesFor(c) ==
  IF Truthy(c.options.project) THEN {[rc |-> 0, out |-> <<>>]} ELSE ConfigReplies
ZoneRepliesFor(c) ==
  IF Truthy(c.options.zone) THEN {[kind |-> "ok", body |-> <<>>]} ELSE ZoneReplies

SetCtx(c) ==
  /\ options' = c.options
  /\ projectLookups' = c.projectLookups
  /\ zoneLookups' = c.zoneLookups
  /\ zoneReply' = c.zoneReply

\* An uncaught exception: the interpreter prints the traceback and exits.
Raise(e) ==
  /\ error' = e
  /\ exitCode' = EXIT_UNCAUGHT
  /\ pc' = "exited"
  /\ printed' = Print1("traceback", e)

\* sys.stderr.write('ERROR: ...'); sys.exit(-1)
sys_exit(message) ==
  /\ error' = "SystemExit"
  /\ exitCode' = EXIT_MINUS_ONE
  /\ pc' = "exited"
  /\ printed' = Print1("error", message)

Running == UNCHANGED <<error, exitCode>>
NoCall == UNCHANGED <<command, ret, loopVars>>

\* ------------------------------------------------------ try_until_ready
\* Output of a failed command as tokens: "refused" marks an occurrence of that
\* substring, any other token is other (non-empty) text.
Stdouts ==
  {<<>>, <<"ssh:">>, <<"refused">>, <<"refused", "ssh:">>, <<"ssh:", "refused">>,
   <<"ssh:", "refused", "refused">>}
\* What run_subprocess(command) can return.
SubprocessResults ==
  {[rc |-> 0, out |-> <<>>]} \cup {[rc |-> 1, out |-> o] : o \in Stdouts}

\* str.find: offset of the first occurrence, -1 when there is none.  Offsets
\* are counted in tokens: zero exactly when the text starts with the substring.
find(out, sub) ==
  LET hits == {i \in 1..Len(out) : out[i] = sub}
  IN IF hits = {} THEN -1 ELSE (CHOOSE i \in hits : \A j \in hits : i <= j) - 1

\* The branch of try_until_ready that prints after a failed invocation.
retry_message(out) ==
  IF find(out, "refused") > 0
  THEN Print1("not_ready", "New instance does not seem ready yet...retry in 5s.")
  ELSE [kind |-> "echo_retry", about |-> "Retrying in 5s.", echo |-> out]

\* Entering try_until_ready(command) from the driver position that continues at next.
call_try_until_ready(cmd, next) ==
  /\ command' = cmd
  /\ ret' = next
  /\ pc' = "try_until_ready"
  /\ invocations' = 0
  /\ failures' = 0
  /\ slept' = 0
  /\ retcode' = 0
  /\ stdout' = <<>>

\* try_until_ready that gives up after the first failed invocation.
try_until_ready_gives_up ==
  /\ pc = "try_until_ready"
  /\ \E r \in SubprocessResults :
       /\ r.rc # 0 => failures < MaxFailures
       /\ invocations' = invocations + 1
       /\ retcode' = r.rc
       /\ stdout' = r.out
       /\ IF r.rc = 0 \/ failures > 0
          THEN /\ pc' = "returned"
               /\ Silent
               /\ UNCHANGED <<failures, slept>>
          ELSE /\ failures' = failures + 1
               /\ printed' = retry_message(r.out)
               /\ slept' = slept + SLEEP_SECONDS
               /\ pc' = "try_until_ready"
  /\ NoLookup /\ Running
  /\ UNCHANGED <<fs, command, ret, made, creates, createRc, reports>>

\* One pass of the while loop: run the command; break on zero, else print and sleep.
try_until_ready ==
  /\ pc = "try_until_ready"
  /\ \E r \in SubprocessResults :
       /\ r.rc # 0 => failures < MaxFailures
       /\ invocations' = invocations + 1
       /\ retcode' = r.rc
       /\ stdout' = r.out
       /\ IF r.rc = 0
          THEN /\ pc' = "returned"
               /\ Silent
               /\ UNCHANGED <<failures, slept>>
          ELSE /\ failures' = failures + 1
               /\ printed' = retry_message(r.out)
               /\ slept' = slept + SLEEP_SECONDS
               /\ pc' = "try_until_ready"
  /\ NoLookup /\ Running
  /\ UNCHANGED <<fs, command, ret, made, creates, createRc, reports>>

\* try_until_ready has returned: the remote side now holds what the command made.
try_until_ready_return ==
  /\ pc = "returned"
  /\ made' = IF command.kind = "ssh" THEN made \cup command.sources ELSE made
  /\ command' = NoCommand
  /\ pc' = ret
  /\ ret' = ""
  /\ invocations' = 0
  /\ failures' = 0
  /\ slept' = 0
  /\ retcode' = 0
  /\ stdout' = <<>>
  /\ NoLookup /\ Running /\ Silent
  /\ UNCHANGED <<fs, creates, createRc, reports>>

\* Build a command (which resolves project and zone) and hand it to
\* try_until_ready; an exception while building ends the run.
issue(c, cmd, next, note) ==
  /\ SetCtx(c)
  /\ IF c.error # NoError
     THEN Raise(c.error) /\ NoCall
     ELSE call_try_until_ready(cmd, next) /\ printed' = note /\ Running

\* ------------------------------------------------------------ preflight
check_gcloud ==
  /\ pc = "check_gcloud"
  /\ \E rc \in {0, 1} :
       IF rc = 0
       THEN pc' = "check_args" /\ Running /\ Silent
       ELSE sys_exit("This program requires gcloud")
  /\ NoLookup /\ NoCall
  /\ UNCHANGED <<fs, made, creates, createRc, reports>>

\* os.path.exists for a path outside HOME.
exists(path) == path \in ExistingFiles

\* check_args that never looks at the path.
check_args_unchecked ==
  /\ pc = "check_args"
  /\ pc' = "create_instance" /\ Running /\ Silent
  /\ NoLookup /\ NoCall
  /\ UNCHANGED <<fs, made, creates, createRc, reports>>

check_args ==
  /\ pc = "check_args"
  /\ IF Truthy(options.aws_credentials) /\ ~exists(options.aws_credentials)
     THEN sys_exit("not found")
     ELSE pc' = "create_instance" /\ Running /\ Silent
  /\ NoLookup /\ NoCall
  /\ UNCHANGED <<fs, made, creates, createRc, reports>>

\* ------------------------------------------------------ create_instance
\* create_instance that runs the command with run_subprocess and drops its exit code.
create_instance_unchecked ==
  /\ pc = "create_instance"
  /\ \E pr1 \in ProjectRepliesFor(Ctx), zr1 \in ZoneRepliesFor(Ctx) :
       LET c1 == resolve(Ctx, pr1, zr1)
       IN \E pr2 \in ProjectRepliesFor(c1), zr2 \in ZoneRepliesFor(c1), rc \in {0, 1} :
            LET c2 == IF c1.error # NoError THEN c1 ELSE resolve(c1, pr2, zr2)
            IN /\ SetCtx(c2)
               /\ creates' = IF c2.error = NoError THEN creates + 1 ELSE creates
               /\ createRc' = IF c2.error = NoError THEN rc ELSE createRc
               /\ IF c2.error # NoError
                  THEN Raise(c2.error)
                  ELSE /\ pc' = "make_remote_directories"
                       /\ printed' = Print1("creating", "instance")
                       /\ Running
  /\ NoCall
  /\ UNCHANGED <<fs, made, reports>>

create_instance ==
  /\ pc = "create_instance"
  /\ \E pr1 \in ProjectRepliesFor(Ctx), zr1 \in ZoneRepliesFor(Ctx) :
       LET c1 == resolve(Ctx, pr1, zr1)
       IN \E pr2 \in ProjectRepliesFor(c1), zr2 \in ZoneRepliesFor(c1), rc \in {0, 1} :
            LET c2 == IF c1.error # NoError THEN c1 ELSE resolve(c1, pr2, zr2)
                c3 == IF c2.error # NoError THEN c2
                      ELSE check_subprocess(c2, [rc |-> rc, out |-> <<>>])
            IN /\ SetCtx(c3)
               /\ creates' = IF c2.error = NoError THEN creates + 1 ELSE creates
               /\ createRc' = IF c2.error = NoError THEN rc ELSE createRc
               /\ IF c3.error # NoError
                  THEN Raise(c3.error)
                  ELSE /\ pc' = "make_remote_directories"
                       /\ printed' = Print1("creating", "instance")
                       /\ Running
  /\ NoCall
  /\ UNCHANGED <<fs, made, reports>>

\* ------------------------------------------------ make_remote_directories
\* The list 'all' without the .gradle entry.
remote_directories_no_gradle(o) ==
  (IF o.copy_home_spinnaker THEN {".hal", ".spinnaker"} ELSE {})
  \cup (IF Truthy(o.aws_credentials) THEN {".aws"} ELSE {})
  \cup (IF o.copy_gcloud_config THEN {".config/gcloud"} ELSE {})

\* The list 'all' of make_remote_directories.
remote_directories(o) ==
  (IF o.copy_home_spinnaker THEN {".hal", ".spinnaker"} ELSE {})
  \cup (IF o.copy_personal_files THEN {".gradle"} ELSE {})
  \cup (IF Truthy(o.aws_credentials) THEN {".aws"} ELSE {})
  \cup (IF o.copy_gcloud_config THEN {".config/gcloud"} ELSE {})

make_remote_directories ==
  /\ pc = "make_remote_directories"
  /\ LET all == remote_directories(options)
     IN IF all # {}
        THEN \E pr \in ProjectRepliesFor(Ctx), zr \in ZoneRepliesFor(Ctx) :
               issue(resolve(Ctx, pr, zr), SshMkdir(all), "copy_personal_files", NoPrint)
        ELSE pc' = "copy_personal_files" /\ NoLookup /\ NoCall /\ Running /\ Silent
  /\ UNCHANGED <<fs, made, creates, createRc, reports>>

\* --------------------------------------------------------- file copies
copy_custom_file(source_list, target, next, note) ==
  \E pr \in ProjectRepliesFor(Ctx), zr \in ZoneRepliesFor(Ctx) :
    issue(resolve(Ctx, pr, zr), CopyFiles(source_list, target), next, note)

copy_dir(source, target, next) ==
  \E pr \in ProjectRepliesFor(Ctx), zr \in ZoneRepliesFor(Ctx) :
    issue(resolve(Ctx, pr, zr), Scp(source, target), next, Print1("copying_dir", source))

\* The list 'have' of copy_home_file_list: the sources that os.path.exists finds.
existing(present, base_dir, sources) ==
  {HomePath(base_dir, f) : f \in {g \in sources : HomePath(base_dir, g) \in present}}

copy_home_file_list(type, base_dir, sources, next) ==
  \E present \in SUBSET {HomePath(base_dir, f) : f \in sources} :
    /\ fs' = present
    /\ LET have == existing(present, base_dir, sources)
       IN IF have # {}
          THEN copy_custom_file(have, base_dir, next, Print1("copying", type))
          ELSE /\ printed' = Print1("skip_no_files", type)
               /\ pc' = next
               /\ NoLookup /\ NoCall /\ Running

maybe_inform(type, test_path, option_to_enable, next) ==
  \E present \in SUBSET {test_path} :
    /\ fs' = present
    /\ printed' = IF test_path \in present THEN Print1("skip_missing_option", type)
                  ELSE NoPrint
    /\ pc' = next
    /\ NoLookup /\ NoCall /\ Running

\* The driver calling copy_personal_files whatever the flag says.
copy_personal_files_always ==
  /\ pc = "copy_personal_files"
  /\ copy_home_file_list("personal configuration files", ".", PersonalFiles,
                         "copy_gradle")
  /\ UNCHANGED <<made, creates, createRc, reports>>

\* __main__: if options.copy_personal_files: copy_personal_files(options),
\* up to the first copy_home_file_list.
copy_personal_files ==
  /\ pc = "copy_personal_files"
  /\ IF options.copy_personal_files
     THEN copy_home_file_list("personal configuration files", ".", PersonalFiles,
                              "copy_gradle")
     ELSE /\ pc' = "maybe_copy_git_credentials"
          /\ NoLookup /\ NoCall /\ Running /\ Silent
          /\ UNCHANGED fs
  /\ UNCHANGED <<made, creates, createRc, reports>>

\* The second copy_home_file_list of copy_personal_files.
copy_gradle ==
  /\ pc = "copy_gradle"
  /\ copy_home_file_list("gradle configuration", ".gradle", GradleFiles,
                         "maybe_copy_git_credentials")
  /\ UNCHANGED <<made, creates, createRc, reports>>

maybe_copy_git_credentials ==
  /\ pc = "maybe_copy_git_credentials"
  /\ IF options.copy_git_credentials
     THEN copy_home_file_list("git credentials", ".", GitFiles,
                              "maybe_copy_aws_credentials")
     ELSE maybe_inform("git credentials", ".git-credentials",
                       "--copy_git_credentials", "maybe_copy_aws_credentials")
  /\ UNCHANGED <<made, creates, createRc, reports>>

maybe_copy_aws_credentials ==
  /\ pc = "maybe_copy_aws_credentials"
  /\ IF Truthy(options.aws_credentials)
     THEN /\ copy_custom_file({options.aws_credentials}, ".aws/credentials",
                              "maybe_copy_home_spinnaker",
                              Print1("copying", "aws credentials"))
          /\ fs' = {}
     ELSE maybe_inform("aws credentials", ".aws/credentials", "--aws_credentials",
                       "maybe_copy_home_spinnaker")
  /\ UNCHANGED <<made, creates, createRc, reports>>

\* maybe_copy_home_spinnaker up to the first copy_dir.  Nothing here asks the
\* filesystem; fs' is what the two directories are when the copy is issued.
maybe_copy_home_spinnaker ==
  /\ pc = "maybe_copy_home_spinnaker"
  /\ IF ~options.copy_home_spinnaker
     THEN /\ pc' = "maybe_copy_gcloud_config"
          /\ NoLookup /\ NoCall /\ Running /\ Silent
          /\ UNCHANGED fs
     ELSE /\ fs' \in SUBSET SpinnakerDirs
          /\ copy_dir(".spinnaker", ".", "copy_hal")
  /\ UNCHANGED <<made, creates, createRc, reports>>

\* The second copy_dir of maybe_copy_home_spinnaker.
copy_hal ==
  /\ pc = "copy_hal"
  /\ copy_dir(".hal", ".", "maybe_copy_gcloud_config")
  /\ UNCHANGED <<fs, made, creates, createRc, reports>>

maybe_copy_gcloud_config ==
  /\ pc = "maybe_copy_gcloud_config"
  /\ IF options.copy_gcloud_config
     THEN copy_home_file_list("gcloud credentials", ".config/gcloud", GcloudFiles,
                              "next_step_instructions")
     ELSE maybe_inform("gcloud credentials", ".config/gcloud/credentials",
                       "--copy_gcloud_config", "next_step_instructions")
  /\ UNCHANGED <<made, creates, createRc, reports>>

\* print(__NEXT_STEP_INSTRUCTIONS.format(project=..., zone=..., instance=...))
\* and the end of the script.
next_step_instructions ==
  /\ pc = "next_step_instructions"
  /\ \E pr \in ProjectRepliesFor(Ctx), zr \in ZoneRepliesFor(Ctx) :
       LET c == resolve(Ctx, pr, zr)
       IN /\ SetCtx(c)
          /\ IF c.error # NoError
             THEN Raise(c.error) /\ UNCHANGED reports
             ELSE /\ printed' = Print1("instructions", "next steps")
                  /\ reports' = reports + 1
                  /\ pc' = "exited"
                  /\ exitCode' = 0
                  /\ UNCHANGED error
  /\ NoCall
  /\ UNCHANGED <<fs, made, creates, createRc>>

Next ==
  \/ check_gcloud
  \/ check_args
  \/ create_instance
  \/ make_remote_directories
  \/ try_until_ready
  \/ try_until_ready_return
  \/ copy_personal_files
  \/ copy_gradle
  \/ maybe_copy_git_credentials
  \/ maybe_copy_aws_credentials
  \/ maybe_copy_home_spinnaker
  \/ copy_hal
  \/ maybe_copy_gcloud_config
  \/ next_step_instructions

Spec == Init /\ [][Next]_vars


\* --------------------------------------------------------------- claims
CopyKinds == {"scp", "copy-files"}
InLoop == pc \in {"try_until_ready", "returned"}

\* C1: try_until_ready returns only after an invocation that exited zero; when
\* the command failed n times before, it was invoked n+1 times and slept n
\* times 5 seconds (one sleep after each failure, before the next invocation),
\* and nothing is invoked once it has succeeded.
C1_RetryUntilZero ==
  /\ pc = "try_until_ready" =>
       /\ invocations = failures
       /\ slept = SLEEP_SECONDS * failures
       /\ (invocations > 0 => retcode # 0)
  /\ pc = "returned" =>
       /\ retcode = 0
       /\ invocations = failures + 1
       /\ slept = SLEEP_SECONDS * failures
  /\ ~InLoop => invocations = 0 /\ slept = 0
C1_Witness ==
  pc = "returned" /\ failures = 2 /\ invocations = 3 /\ slept = 2 * SLEEP_SECONDS

\* C2: with --aws_credentials naming a missing path the run exits non-zero and
\* never creates an instance, runs a remote command or looks up project or zone.
MissingAws == Truthy(options.aws_credentials) /\ ~exists(options.aws_credentials)
C2_MissingAwsFailsFast ==
  MissingAws =>
    /\ pc \in {"check_gcloud", "check_args", "exited"}
    /\ creates = 0 /\ command = NoCommand /\ made = {} /\ reports = 0
    /\ projectLookups = 0 /\ zoneLookups = 0
    /\ (pc = "exited" => exitCode # 0)
C2_Witness ==
  /\ MissingAws /\ pc = "exited" /\ exitCode = EXIT_MINUS_ONE
  /\ printed = Print1("error", "not found")
  /\ options.copy_home_spinnaker /\ options.copy_gcloud_config

\* C3: with every copy flag off and no AWS path, no copy command and no remote
\* mkdir is ever built or run, whatever the local files are.
AllCopyOff ==
  /\ ~options.copy_personal_files /\ ~options.copy_home_spinnaker
  /\ ~options.copy_git_credentials /\ ~options.copy_gcloud_config
  /\ ~Truthy(options.aws_credentials)
C3_NoCopyWhenAllOff ==
  AllCopyOff => command = NoCommand /\ ~InLoop /\ made = {} /\ invocations = 0
C3_Witness ==
  AllCopyOff /\ pc = "exited" /\ exitCode = 0 /\ reports = 1 /\ creates = 1

\* C4: over a run, each fallback source (gcloud config list, the metadata
\* endpoint) is queried at most once, whatever it returned.
C4_LookupAtMostOnce == projectLookups <= 1 /\ zoneLookups <= 1

\* C5: a metadata request that fails with HTTPError or URLError leaves the
\* default zone in the options, and that error never ends the run.
NetworkErrors == {"HTTPError", "URLError"}
C5_ZoneFallback ==
  /\ zoneReply \in NetworkErrors => options.zone = DEFAULT_ZONE
  /\ error \notin NetworkErrors
C5_Witness ==
  /\ zoneReply = "URLError" /\ options.zone = DEFAULT_ZONE /\ zoneLookups = 1
  /\ pc = "make_remote_directories" /\ error = NoError

\* C6 as stated: every run executes the create command exactly once.
C6_ExactlyOncePerRun == pc = "exited" => creates = 1
\* C6 amended: the create command runs at most once, exactly once in every run
\* that gets past create_instance, and a non-zero exit ends the run at once:
\* no retry, no remote mkdir, no copy, no instructions.
C6_CreateOnceFatal ==
  /\ creates <= 1
  /\ (creates = 0) = (createRc = -1)
  /\ pc \notin {"check_gcloud", "check_args", "create_instance", "exited"} =>
       creates = 1 /\ createRc = 0
  /\ exitCode = 0 => creates = 1 /\ createRc = 0
  /\ createRc \notin {-1, 0} =>
       /\ pc = "exited" /\ exitCode # 0 /\ error = "CalledProcessError"
       /\ command = NoCommand /\ made = {} /\ invocations = 0 /\ reports = 0
C6_Witness == createRc = 1 /\ creates = 1 /\ pc = "exited"

\* C7: after a failed invocation the quiet message is printed exactly when the
\* output contains "refused" at any position, the start included.
contains(out, sub) == \E i \in 1..Len(out) : out[i] = sub
C7_QuietIffRefused ==
  printed.kind \in {"not_ready", "echo_retry"} =>
    ((printed.kind = "not_ready") = contains(stdout, "refused"))

\* C8: in every file-copy category of the home directory a copy command names
\* only local paths that exist; a category with none prints a skip notice.
C8_CopyOnlyExisting ==
  /\ command.kind \in CopyKinds /\ command.target # ".aws/credentials" =>
       command.sources \subseteq fs
  /\ printed.kind = "skip_no_files" => fs = {} /\ command = NoCommand

\* C9: when a copy into a remote subdirectory (.gradle, .aws, .config/gcloud)
\* or of .spinnaker/.hal is issued, a remote mkdir naming that directory has
\* already exited zero.
needed_directories(cmd) ==
  IF cmd.kind = "scp" THEN cmd.sources
  ELSE IF cmd.target = "." THEN {}
  ELSE IF cmd.target = ".aws/credentials" THEN {".aws"}
  ELSE {cmd.target}
C9_DirectoriesMadeFirst ==
  command.kind \in CopyKinds => needed_directories(command) \subseteq made
C9_Witness ==
  /\ command.kind = "copy-files" /\ command.target = ".gradle"
  /\ ".gradle" \in made /\ pc = "try_until_ready"

\* C10: a run whose preflight passed and whose create command exited zero ends
\* by printing the instructions, once, as its last action, after every remote
\* command has exited zero; so it never dies of an exception after the create.
\* The create command precedes every remote command and the mkdir every copy.
C10_Order ==
  /\ command # NoCommand => createRc = 0
  /\ command.kind \in CopyKinds => remote_directories(options) \subseteq made
  /\ reports <= 1
  /\ reports = 1 => pc = "exited" /\ exitCode = 0 /\ command = NoCommand
C10_RunCompletes ==
  /\ createRc = 0 => error = NoError
  /\ C10_Order

\* The scheduling of the script: it keeps running, and a command that can exit
\* zero eventually does.
LiveSpec == Spec /\ WF_vars(Next) /\ SF_vars(try_until_ready /\ pc' = "returned")
\* With a non-empty project in the options after the create command, the run
\* does end with the instructions.
CompletesWhenProjectKnown ==
  (createRc = 0 /\ Truthy(options.project)) ~> (pc = "exited" /\ reports = 1)

====
